---- MODULE Spec2Model ----
(***************************************************************************)
(* State-machine model of the AudioCropper React component                 *)
(* (src/src/AudioCropper.tsx, the WaveSurfer version, lines 486-797).      *)
(*                                                                         *)
(* Times are JavaScript numbers of seconds; the model keeps them as        *)
(* integers counting thousandths of a second, so 2.5 s is 2500 and the     *)
(* two-decimal precision of preserveDecimals is a multiple of 10.          *)
(***************************************************************************)
EXTENDS Integers, Sequences, FiniteSets

\* ------------------------------------------------------------- bounds
\* File selections that create an object URL in one run.
MaxUploads == 2
\* Crop invocations started in one run.
MaxCrops == 2

\* ---------------------------------------------------------- the inputs
\* Files offered to the upload control.
Files == {"a", "b", "big"}

\* maxFileSize = 10 * 1024 * 1024 (the component's default prop).
maxFileSize == 10 * 1024 * 1024

\* file.size of each offered file: "b" is exactly at the limit, "big" above.
Size(f) == CASE f = "a" -> 4096
             [] f = "b" -> maxFileSize
             [] OTHER -> maxFileSize + 1

\* waveSurfer.getDuration() once the file is decoded, in thousandths.
Duration(f) == CASE f = "a" -> 10000
                 [] f = "b" -> 4009
                 [] OTHER -> 7300

\* Positions a slider change can report, in thousandths of a second.
SliderTimes == {2500, 7304}

\* Positions a region drag or resize can report, in thousandths of a second.
RegionTimes == {1004, 4009}

NoFile == "null"
NoWs == [id |-> 0]
NoUrl == [url |-> 0]
NoOutput == [by |-> 0]

\* ------------------------------------------------- utils.preserveDecimals
\* Truncation toward zero to two decimals: thousandths cut to hundredths.
\* The call sites never pass the round option.
preserveDecimals(x) == (x \div 10) * 10

\* ------------------------------------------------------- `${number}`
DigitChar(d) == <<"0", "1", "2", "3", "4", "5", "6", "7", "8", "9">>[d + 1]

RECURSIVE IntDigits(_)
IntDigits(n) == IF n < 10 THEN <<DigitChar(n)>>
                ELSE IntDigits(n \div 10) \o <<DigitChar(n % 10)>>

\* The fraction digits of f thousandths, shortest form: 500 is "5", 40 is "04".
RECURSIVE FracDigits(_, _)
FracDigits(f, unit) ==
    IF f = 0 THEN <<>>
    ELSE <<DigitChar(f \div unit)>> \o FracDigits(f % unit, unit \div 10)

\* Number-to-string of the template literal: 2500 is "2.5", 10000 is "10".
NumberToString(t) ==
    IntDigits(t \div 1000) \o
    (IF t % 1000 = 0 THEN <<>> ELSE <<".">> \o FracDigits(t % 1000, 100))

\* The argument list handed to ffmpeg.exec.
ExecArgs(ss, to) ==
    <<"-i", "input.mp3", "-ss", NumberToString(ss), "-to", NumberToString(to),
      "-c", "copy", "output.mp3">>

\* ---------------------------------------------------------------- state
VARIABLES
    audioFile,        \* useState<AudioFileState>: [file, url, duration]
    startTime,        \* useState<number>
    endTime,          \* useState<number>
    isProcessing,     \* useState<boolean>
    croppedAudioUrl,  \* useState<string>: NoUrl is ''
    isFFmpegLoaded,   \* useState<boolean>
    ffmpegRef,        \* useRef<FFmpeg | null>: "null" or "ffmpeg"
    loadPc,           \* loadFFmpeg: "loading" until ffmpeg.load settles
    waveSurferRef,    \* useRef<WaveSurfer | null>: the instance and its regions
    instances,        \* ids of the WaveSurfer instances not yet destroyed
    crops,            \* the handleCrop invocations that have not settled
    nextCrop,         \* id of the next handleCrop invocation
    engineFs,         \* the engine's file system: who wrote output.mp3
    notified,         \* the antd message shown by the last step, or "none"
    lastEvent         \* the last event handled and its arguments

vars == <<audioFile, startTime, endTime, isProcessing, croppedAudioUrl,
          isFFmpegLoaded, ffmpegRef, loadPc, waveSurferRef, instances,
          crops, nextCrop, engineFs, notified, lastEvent>>

Event(type, a, b) == [type |-> type, a |-> a, b |-> b]

Init ==
    /\ audioFile = [file |-> NoFile, url |-> 0, duration |-> 0]
    /\ startTime = 0
    /\ endTime = 0
    /\ isProcessing = FALSE
    /\ croppedAudioUrl = NoUrl
    /\ isFFmpegLoaded = FALSE
    /\ ffmpegRef = "null"
    /\ loadPc = "loading"
    /\ waveSurferRef = NoWs
    /\ instances = {}
    /\ crops = {}
    /\ nextCrop = 1
    /\ engineFs = [output |-> NoOutput]
    /\ notified = "none"
    /\ lastEvent = Event("mount", 0, 0)

\* ------------------------------------------------------------ loadFFmpeg
LoadFFmpegResolved ==
    /\ loadPc = "loading"
    /\ loadPc' = "done"
    /\ ffmpegRef' = "ffmpeg"
    /\ isFFmpegLoaded' = TRUE
    /\ notified' = "none"
    /\ lastEvent' = Event("ffmpegLoaded", 0, 0)
    /\ UNCHANGED <<audioFile, startTime, endTime, isProcessing, croppedAudioUrl,
                   waveSurferRef, instances, crops, nextCrop, engineFs>>

\* A loader that reports the engine as loaded whether or not load resolved.
LoadFFmpegRejectedLoaded ==
    /\ loadPc = "loading"
    /\ loadPc' = "done"
    /\ isFFmpegLoaded' = TRUE
    /\ notified' = "initError"
    /\ lastEvent' = Event("ffmpegLoadFailed", 0, 0)
    /\ UNCHANGED <<audioFile, startTime, endTime, isProcessing, croppedAudioUrl,
                   ffmpegRef, waveSurferRef, instances, crops, nextCrop, engineFs>>

\* ffmpeg.load (or toBlobURL) rejects: the catch block shows the message and
\* neither the ref nor isFFmpegLoaded is set.
LoadFFmpegRejected ==
    /\ loadPc = "loading"
    /\ loadPc' = "done"
    /\ notified' = "initError"
    /\ lastEvent' = Event("ffmpegLoadFailed", 0, 0)
    /\ UNCHANGED <<audioFile, startTime, endTime, isProcessing, croppedAudioUrl,
                   isFFmpegLoaded, ffmpegRef, waveSurferRef, instances,
                   crops, nextCrop, engineFs>>

\* ------------------------------------------- useEffect on audioFile.url
\* The effect body: destroy the previous instance, create a new one with a
\* regions plugin, start loading the URL, and store it in waveSurferRef.
NewWaveSurfer(url, file) ==
    [id |-> url, phase |-> "loading", duration |-> Duration(file), regions |-> {}]

\* An effect that creates the new instance without destroying the old one.
InstancesAfterInitLeaky(url) ==
    instances \cup {url}

InstancesAfterInit(url) ==
    (IF waveSurferRef # NoWs THEN instances \ {waveSurferRef.id} ELSE instances)
        \cup {url}

\* ------------------------------------------------------ handleFileUpload
\* URL.createObjectURL(file) gives a URL never given before: the URLs are
\* numbered in the order they are created, and audioFile.url is the latest.
NextUrl == audioFile.url + 1

\* A handler that drops the crop result of the previous asset when a new
\* file is accepted.
HandleFileUploadClearing(file) ==
    /\ NextUrl <= MaxUploads
    /\ lastEvent' = Event("upload", Size(file), 0)
    /\ IF Size(file) > maxFileSize
       THEN /\ notified' = "tooLarge"
            /\ UNCHANGED <<audioFile, waveSurferRef, instances, croppedAudioUrl>>
       ELSE /\ audioFile' = [file |-> file, url |-> NextUrl, duration |-> 0]
            /\ waveSurferRef' = NewWaveSurfer(NextUrl, file)
            /\ instances' = InstancesAfterInit(NextUrl)
            /\ croppedAudioUrl' = NoUrl
            /\ notified' = "none"
    /\ UNCHANGED <<startTime, endTime, isProcessing,
                   isFFmpegLoaded, ffmpegRef, loadPc, crops, nextCrop, engineFs>>

\* A handler that also rejects a file of exactly maxFileSize.
HandleFileUploadStrict(file) ==
    /\ NextUrl <= MaxUploads
    /\ lastEvent' = Event("upload", Size(file), 0)
    /\ IF Size(file) >= maxFileSize
       THEN /\ notified' = "tooLarge"
            /\ UNCHANGED <<audioFile, waveSurferRef, instances>>
       ELSE /\ audioFile' = [file |-> file, url |-> NextUrl, duration |-> 0]
            /\ waveSurferRef' = NewWaveSurfer(NextUrl, file)
            /\ instances' = InstancesAfterInit(NextUrl)
            /\ notified' = "none"
    /\ UNCHANGED <<startTime, endTime, isProcessing, croppedAudioUrl,
                   isFFmpegLoaded, ffmpegRef, loadPc, crops, nextCrop, engineFs>>

HandleFileUpload(file) ==
    /\ NextUrl <= MaxUploads
    /\ lastEvent' = Event("upload", Size(file), 0)
    /\ IF Size(file) > maxFileSize
       THEN /\ notified' = "tooLarge"
            /\ UNCHANGED <<audioFile, waveSurferRef, instances>>
       ELSE /\ audioFile' = [file |-> file, url |-> NextUrl, duration |-> 0]
            /\ waveSurferRef' = NewWaveSurfer(NextUrl, file)
            /\ instances' = InstancesAfterInit(NextUrl)
            /\ notified' = "none"
    /\ UNCHANGED <<startTime, endTime, isProcessing, croppedAudioUrl,
                   isFFmpegLoaded, ffmpegRef, loadPc, crops, nextCrop, engineFs>>

\* ------------------------------------------------- waveSurfer.on('decode')
\* addRegion without an id: the plugin names the region itself.
InitialRegion == [id |-> "region-auto", start |-> 0, end |-> 8000]

WsDecode ==
    /\ waveSurferRef # NoWs
    /\ waveSurferRef.phase = "loading"
    /\ waveSurferRef' = [waveSurferRef EXCEPT !.phase = "decoded",
                                              !.regions = @ \cup {InitialRegion}]
    /\ notified' = "none"
    /\ lastEvent' = Event("decode", 0, 0)
    /\ UNCHANGED <<audioFile, startTime, endTime, isProcessing, croppedAudioUrl,
                   isFFmpegLoaded, ffmpegRef, loadPc, instances, crops,
                   nextCrop, engineFs>>

\* -------------------------------------------------- waveSurfer.on('ready')
\* A ready handler that stores the duration without truncating it.
WsReadyRaw ==
    /\ waveSurferRef # NoWs
    /\ waveSurferRef.phase = "decoded"
    /\ waveSurferRef' = [waveSurferRef EXCEPT !.phase = "ready"]
    /\ endTime' = waveSurferRef.duration
    /\ notified' = "none"
    /\ lastEvent' = Event("ready", waveSurferRef.duration, 0)
    /\ UNCHANGED <<audioFile, startTime, isProcessing, croppedAudioUrl,
                   isFFmpegLoaded, ffmpegRef, loadPc, instances, crops,
                   nextCrop, engineFs>>

WsReady ==
    /\ waveSurferRef # NoWs
    /\ waveSurferRef.phase = "decoded"
    /\ waveSurferRef' = [waveSurferRef EXCEPT !.phase = "ready"]
    /\ endTime' = preserveDecimals(waveSurferRef.duration)
    /\ notified' = "none"
    /\ lastEvent' = Event("ready", waveSurferRef.duration, 0)
    /\ UNCHANGED <<audioFile, startTime, isProcessing, croppedAudioUrl,
                   isFFmpegLoaded, ffmpegRef, loadPc, instances, crops,
                   nextCrop, engineFs>>

\* ------------------------------------- regionsPlugin.on('region-updated')
\* The user drags or resizes region r of the rendered waveform to [a, b],
\* inside the waveform; the plugin moves the region and emits the event the
\* handler listens to.  WaveSurfer renders and emits 'ready' right after
\* 'decode', so a drag comes after 'ready'.
\* A handler that stores the reported bounds without truncating them.
RegionUpdatedRaw(r, a, b) ==
    /\ waveSurferRef # NoWs
    /\ waveSurferRef.phase = "ready"
    /\ r \in waveSurferRef.regions
    /\ a <= b /\ b <= waveSurferRef.duration
    /\ waveSurferRef' = [waveSurferRef EXCEPT
            !.regions = (@ \ {r}) \cup {[r EXCEPT !.start = a, !.end = b]}]
    /\ startTime' = a
    /\ endTime' = b
    /\ notified' = "none"
    /\ lastEvent' = Event("region", a, b)
    /\ UNCHANGED <<audioFile, isProcessing, croppedAudioUrl, isFFmpegLoaded,
                   ffmpegRef, loadPc, instances, crops, nextCrop,
                   engineFs>>

\* A handler that writes the truncated bounds back into the region.
RegionUpdatedPushing(r, a, b) ==
    /\ waveSurferRef # NoWs
    /\ waveSurferRef.phase = "ready"
    /\ r \in waveSurferRef.regions
    /\ a <= b /\ b <= waveSurferRef.duration
    /\ waveSurferRef' = [waveSurferRef EXCEPT
            !.regions = (@ \ {r}) \cup {[r EXCEPT !.start = preserveDecimals(a),
                                                  !.end = preserveDecimals(b)]}]
    /\ startTime' = preserveDecimals(a)
    /\ endTime' = preserveDecimals(b)
    /\ notified' = "none"
    /\ lastEvent' = Event("region", a, b)
    /\ UNCHANGED <<audioFile, isProcessing, croppedAudioUrl, isFFmpegLoaded,
                   ffmpegRef, loadPc, instances, crops, nextCrop,
                   engineFs>>

RegionUpdated(r, a, b) ==
    /\ waveSurferRef # NoWs
    /\ waveSurferRef.phase = "ready"
    /\ r \in waveSurferRef.regions
    /\ a <= b /\ b <= waveSurferRef.duration
    /\ waveSurferRef' = [waveSurferRef EXCEPT
            !.regions = (@ \ {r}) \cup {[r EXCEPT !.start = a, !.end = b]}]
    /\ startTime' = preserveDecimals(a)
    /\ endTime' = preserveDecimals(b)
    /\ notified' = "none"
    /\ lastEvent' = Event("region", a, b)
    /\ UNCHANGED <<audioFile, isProcessing, croppedAudioUrl, isFFmpegLoaded,
                   ffmpegRef, loadPc, instances, crops, nextCrop,
                   engineFs>>

\* ---------------------------------------------------------- updateRegion
\* regions.list['selection']: the region whose id is 'selection', if any.
RegionsAfterUpdate(ws, start, end) ==
    IF ws = NoWs THEN ws
    ELSE [ws EXCEPT !.regions =
            {IF r.id = "selection" THEN [r EXCEPT !.start = start, !.end = end]
             ELSE r : r \in @}]

\* ------------------------------------------------------- Slider onChange
\* The range slider is rendered once a file is selected and reports an
\* ordered pair.
SliderChange(start, end) ==
    /\ audioFile.file # NoFile
    /\ start <= end
    /\ startTime' = preserveDecimals(start)
    /\ endTime' = preserveDecimals(end)
    /\ waveSurferRef' = RegionsAfterUpdate(waveSurferRef, start, end)
    /\ notified' = "none"
    /\ lastEvent' = Event("slider", start, end)
    /\ UNCHANGED <<audioFile, isProcessing, croppedAudioUrl, isFFmpegLoaded,
                   ffmpegRef, loadPc, instances, crops, nextCrop,
                   engineFs>>

\* ------------------------------------------------------ the crop button
\* A button that stays clickable while a crop is running.
CropTriggerEnabledNoLoading == audioFile.file # NoFile /\ isFFmpegLoaded

\* The button is rendered once a file is selected, disabled={!isFFmpegLoaded}
\* and loading={isProcessing}: a loading antd Button takes no click.
CropTriggerEnabled ==
    audioFile.file # NoFile /\ isFFmpegLoaded /\ ~isProcessing

\* ------------------------------------------------------------ handleCrop
\* handleCrop is the closure of the render in which the button was clicked:
\* audioFile.file, startTime and endTime keep that render's values for the
\* whole invocation.  calls is the invocation's engine calls so far, input
\* the file whose bytes its writeFile call carries, args the argument list of
\* its exec call, trigger the slider change handled just
\* before the click, if that is what preceded it.
\* The handler's own guard: no file, no engine instance, or engine not loaded.
CropNotReady ==
    audioFile.file = NoFile \/ ffmpegRef = "null" \/ ~isFFmpegLoaded

\* A handler without the guard: it starts the crop whatever the state.
HandleCropUnguarded ==
    /\ CropTriggerEnabled \/ CropNotReady
    /\ nextCrop <= MaxCrops
    /\ lastEvent' = Event("crop", nextCrop, 0)
    /\ isProcessing' = TRUE
    /\ crops' = crops \cup
          {[id |-> nextCrop, pc |-> "arrayBuffer", file |-> audioFile.file,
            ss |-> startTime, to |-> endTime, calls |-> <<>>,
            args |-> <<>>, input |-> NoFile,
            trigger |-> IF lastEvent.type = "slider" THEN lastEvent
                        ELSE Event("other", 0, 0)]}
    /\ nextCrop' = nextCrop + 1
    /\ notified' = "none"
    /\ UNCHANGED <<audioFile, startTime, endTime, croppedAudioUrl, isFFmpegLoaded,
                   ffmpegRef, loadPc, waveSurferRef, instances, engineFs>>

\* handleCrop runs when the button passes a click on.  The button never does
\* so in a state the handler's guard rejects; the handler is also run in
\* those states, so that its early return is part of the behaviour checked.
HandleCrop ==
    /\ CropTriggerEnabled \/ CropNotReady
    /\ nextCrop <= MaxCrops
    /\ lastEvent' = Event("crop", nextCrop, 0)
    /\ IF CropNotReady
       THEN /\ notified' = "notReady"
            /\ UNCHANGED <<isProcessing, crops, nextCrop>>
       ELSE /\ isProcessing' = TRUE
            /\ crops' = crops \cup
                  {[id |-> nextCrop, pc |-> "arrayBuffer", file |-> audioFile.file,
                    ss |-> startTime, to |-> endTime, calls |-> <<>>,
                    args |-> <<>>, input |-> NoFile,
                    trigger |-> IF lastEvent.type = "slider" THEN lastEvent
                                ELSE Event("other", 0, 0)]}
            /\ nextCrop' = nextCrop + 1
            /\ notified' = "none"
    /\ UNCHANGED <<audioFile, startTime, endTime, croppedAudioUrl, isFFmpegLoaded,
                   ffmpegRef, loadPc, waveSurferRef, instances, engineFs>>

\* One await of invocation c resolves and the code runs on to its next
\* await, which issues the engine call `call`.
Advance(c, pc, call) ==
    crops' = (crops \ {c}) \cup
        {[c EXCEPT !.pc = pc, !.calls = Append(@, call)]}

\* A handler that reads the file of the latest render when it writes the
\* input, not the file of the render that was clicked.
ArrayBufferResolvedLive(c) ==
    /\ c \in crops /\ c.pc = "arrayBuffer"
    /\ crops' = (crops \ {c}) \cup
          {[c EXCEPT !.pc = "writeFile", !.calls = Append(@, "writeFile"),
                     !.input = audioFile.file]}
    /\ notified' = "none"
    /\ lastEvent' = Event("cropStep", c.id, 0)
    /\ UNCHANGED <<audioFile, startTime, endTime, isProcessing, croppedAudioUrl,
                   isFFmpegLoaded, ffmpegRef, loadPc, waveSurferRef, instances,
                   nextCrop, engineFs>>

\* await audioFile.file.arrayBuffer() resolves: writeFile is called with the
\* bytes of the closure's file.
ArrayBufferResolved(c) ==
    /\ c \in crops /\ c.pc = "arrayBuffer"
    /\ crops' = (crops \ {c}) \cup
          {[c EXCEPT !.pc = "writeFile", !.calls = Append(@, "writeFile"),
                     !.input = c.file]}
    /\ notified' = "none"
    /\ lastEvent' = Event("cropStep", c.id, 0)
    /\ UNCHANGED <<audioFile, startTime, endTime, isProcessing, croppedAudioUrl,
                   isFFmpegLoaded, ffmpegRef, loadPc, waveSurferRef, instances, nextCrop, engineFs>>

\* An exec call that reads the interval of the latest render, not of the
\* render that was clicked.
WriteFileResolvedLive(c) ==
    /\ c \in crops /\ c.pc = "writeFile"
    /\ crops' = (crops \ {c}) \cup
          {[c EXCEPT !.pc = "exec", !.calls = Append(@, "exec"),
                     !.args = ExecArgs(startTime, endTime)]}
    /\ notified' = "none"
    /\ lastEvent' = Event("cropStep", c.id, 0)
    /\ UNCHANGED <<audioFile, startTime, endTime, isProcessing, croppedAudioUrl,
                   isFFmpegLoaded, ffmpegRef, loadPc, waveSurferRef, instances, nextCrop, engineFs>>

\* await ffmpeg.writeFile('input.mp3', ...) resolves: exec is called.
WriteFileResolved(c) ==
    /\ c \in crops /\ c.pc = "writeFile"
    /\ crops' = (crops \ {c}) \cup
          {[c EXCEPT !.pc = "exec", !.calls = Append(@, "exec"),
                     !.args = ExecArgs(c.ss, c.to)]}
    /\ notified' = "none"
    /\ lastEvent' = Event("cropStep", c.id, 0)
    /\ UNCHANGED <<audioFile, startTime, endTime, isProcessing, croppedAudioUrl,
                   isFFmpegLoaded, ffmpegRef, loadPc, waveSurferRef, instances, nextCrop, engineFs>>

\* await ffmpeg.exec([...]) resolves, having written output.mp3 or not:
\* the first readFile('output.mp3') is called.
ExecResolved(c, produced) ==
    /\ c \in crops /\ c.pc = "exec"
    /\ engineFs' = IF produced THEN [engineFs EXCEPT !.output = [by |-> c.id]]
                   ELSE engineFs
    /\ Advance(c, "readFile1", "readFile")
    /\ notified' = "none"
    /\ lastEvent' = Event("cropStep", c.id, 0)
    /\ UNCHANGED <<audioFile, startTime, endTime, isProcessing, croppedAudioUrl,
                   isFFmpegLoaded, ffmpegRef, loadPc, waveSurferRef, instances, nextCrop>>

\* A first read whose result is used directly, without a second read.
ReadFile1ResolvedOnce(c) ==
    /\ c \in crops /\ c.pc = "readFile1"
    /\ engineFs.output # NoOutput
    /\ crops' = (crops \ {c}) \cup {[c EXCEPT !.pc = "readFile2"]}
    /\ notified' = "none"
    /\ lastEvent' = Event("cropStep", c.id, 0)
    /\ UNCHANGED <<audioFile, startTime, endTime, isProcessing, croppedAudioUrl,
                   isFFmpegLoaded, ffmpegRef, loadPc, waveSurferRef, instances, nextCrop, engineFs>>

\* The first readFile resolves (output.mp3 exists): fileExists is truthy and
\* readFile('output.mp3') is called a second time.
ReadFile1Resolved(c) ==
    /\ c \in crops /\ c.pc = "readFile1"
    /\ engineFs.output # NoOutput
    /\ Advance(c, "readFile2", "readFile")
    /\ notified' = "none"
    /\ lastEvent' = Event("cropStep", c.id, 0)
    /\ UNCHANGED <<audioFile, startTime, endTime, isProcessing, croppedAudioUrl,
                   isFFmpegLoaded, ffmpegRef, loadPc, waveSurferRef, instances, nextCrop, engineFs>>

\* catch and finally without the finally: isProcessing is left set.
CropFailedNoFinally(c) ==
    /\ crops' = crops \ {c}
    /\ notified' = "cropError"
    /\ lastEvent' = Event("cropFailed", c.id, 0)
    /\ UNCHANGED <<audioFile, startTime, endTime, isProcessing, croppedAudioUrl,
                   isFFmpegLoaded, ffmpegRef, loadPc, waveSurferRef, instances, nextCrop, engineFs>>

\* catch (message.error) and finally (setIsProcessing(false)).
CropFailed(c) ==
    /\ crops' = crops \ {c}
    /\ isProcessing' = FALSE
    /\ notified' = "cropError"
    /\ lastEvent' = Event("cropFailed", c.id, 0)
    /\ UNCHANGED <<audioFile, startTime, endTime, croppedAudioUrl,
                   isFFmpegLoaded, ffmpegRef, loadPc, waveSurferRef, instances, nextCrop, engineFs>>

\* The first readFile rejects (no output.mp3): .catch gives null and the
\* handler throws 'file was not generated'.
ReadFile1Rejected(c) ==
    /\ c \in crops /\ c.pc = "readFile1"
    /\ engineFs.output = NoOutput
    /\ CropFailed(c)

\* arrayBuffer, writeFile, exec or the second readFile rejects.
AwaitRejected(c) ==
    /\ c \in crops /\ c.pc \in {"arrayBuffer", "writeFile", "exec", "readFile2"}
    /\ CropFailed(c)

\* A success path without the finally block: isProcessing is left true.
ReadFile2ResolvedNoFinally(c) ==
    /\ c \in crops /\ c.pc = "readFile2"
    /\ crops' = crops \ {c}
    /\ croppedAudioUrl' = [url |-> c.id, data |-> engineFs.output.by]
    /\ notified' = "cropSuccess"
    /\ lastEvent' = Event("cropDone", c.id, 0)
    /\ UNCHANGED <<audioFile, startTime, endTime, isProcessing, isFFmpegLoaded,
                   ffmpegRef, loadPc, waveSurferRef, instances, nextCrop, engineFs>>

\* A success that stores the cropped audio as the asset itself.
ReadFile2ResolvedReplacing(c) ==
    /\ c \in crops /\ c.pc = "readFile2"
    /\ crops' = crops \ {c}
    /\ croppedAudioUrl' = [url |-> c.id, data |-> engineFs.output.by]
    /\ audioFile' = [audioFile EXCEPT !.file = "cropped"]
    /\ isProcessing' = FALSE
    /\ notified' = "cropSuccess"
    /\ lastEvent' = Event("cropDone", c.id, 0)
    /\ UNCHANGED <<startTime, endTime, isFFmpegLoaded, ffmpegRef,
                   loadPc, waveSurferRef, instances, nextCrop, engineFs>>

\* The second readFile resolves: the blob URL is stored and success shown.
ReadFile2Resolved(c) ==
    /\ c \in crops /\ c.pc = "readFile2"
    /\ crops' = crops \ {c}
    /\ croppedAudioUrl' = [url |-> c.id, data |-> engineFs.output.by]
    /\ isProcessing' = FALSE
    /\ notified' = "cropSuccess"
    /\ lastEvent' = Event("cropDone", c.id, 0)
    /\ UNCHANGED <<audioFile, startTime, endTime, isFFmpegLoaded, ffmpegRef,
                   loadPc, waveSurferRef, instances, nextCrop, engineFs>>

\* ------------------------------------------------------ the state machine
Next ==
    \/ LoadFFmpegResolved
    \/ LoadFFmpegRejected
    \/ \E file \in Files : HandleFileUpload(file)
    \/ WsDecode
    \/ WsReady
    \/ \E r \in (IF waveSurferRef = NoWs THEN {} ELSE waveSurferRef.regions),
          a, b \in RegionTimes : RegionUpdated(r, a, b)
    \/ \E start, end \in SliderTimes : SliderChange(start, end)
    \/ HandleCrop
    \/ \E c \in crops : ArrayBufferResolved(c)
    \/ \E c \in crops : WriteFileResolved(c)
    \/ \E c \in crops, produced \in BOOLEAN : ExecResolved(c, produced)
    \/ \E c \in crops : ReadFile1Resolved(c)
    \/ \E c \in crops : ReadFile1Rejected(c)
    \/ \E c \in crops : AwaitRejected(c)
    \/ \E c \in crops : ReadFile2Resolved(c)

Spec == Init /\ [][Next]_vars

\* Some await of a pending crop settles: it resolves or it rejects.
CropStep ==
    \E c \in crops :
        \/ ArrayBufferResolved(c)
        \/ WriteFileResolved(c)
        \/ \E produced \in BOOLEAN : ExecResolved(c, produced)
        \/ ReadFile1Resolved(c)
        \/ ReadFile1Rejected(c)
        \/ AwaitRejected(c)
        \/ ReadFile2Resolved(c)

\* Every promise a crop awaits eventually settles.
FairSpec == Spec /\ WF_vars(CropStep)

\* ------------------------------------------------------------ helpers
\* {croppedAudioUrl && (...)}: the result panel, with its player and its
\* download button, is rendered while a crop result is stored.
ResultPanelShown == croppedAudioUrl # NoUrl

IsPrefix(s, t) == Len(s) <= Len(t) /\ \A i \in 1..Len(s) : s[i] = t[i]

Regions == IF waveSurferRef = NoWs THEN {} ELSE waveSurferRef.regions

\* x cut toward zero to a whole number of hundredths gives t.
TruncatedTo(x, t) == t % 10 = 0 /\ t <= x /\ x - t < 10

\* ==================================================================
\* An asset is loaded once its file is selected and its waveform is ready.
AssetLoaded ==
    /\ audioFile.file # NoFile
    /\ waveSurferRef # NoWs
    /\ waveSurferRef.phase = "ready"

\* C1 (as claimed): whenever an asset is loaded, the selection interval
\* satisfies 0 <= startTime <= endTime <= audioFile.duration.
C1_IntervalWithinDuration ==
    AssetLoaded =>
        /\ 0 <= startTime
        /\ startTime <= endTime
        /\ endTime <= audioFile.duration

\* C2 (as claimed): once a newly selected file's waveform reports ready,
\* startTime is 0 and endTime is the new duration (at the fixed precision),
\* whatever the interval of the previous asset was.
C2_ReadyResetsInterval ==
    lastEvent.type = "ready" =>
        /\ startTime = 0
        /\ endTime = preserveDecimals(lastEvent.a)

\* C3: a slider change to (s, e) leaves the interval at (s, e) cut to the
\* fixed precision, and a crop triggered next calls the engine with -ss and
\* -to set to those two numbers.
C3_SliderThenCrop ==
    /\ lastEvent.type = "slider" =>
          /\ TruncatedTo(lastEvent.a, startTime)
          /\ TruncatedTo(lastEvent.b, endTime)
    /\ \A c \in crops :
          (c.trigger.type = "slider" /\ c.pc \in {"exec", "readFile1", "readFile2"}) =>
              /\ c.args = <<"-i", "input.mp3",
                            "-ss", NumberToString(preserveDecimals(c.trigger.a)),
                            "-to", NumberToString(preserveDecimals(c.trigger.b)),
                            "-c", "copy", "output.mp3">>
              /\ (c.trigger.a = 2500 /\ c.trigger.b = 7304) =>
                    /\ c.args[4] = <<"2", ".", "5">>
                    /\ c.args[6] = <<"7", ".", "3">>

C3_Witness ==
    \E c \in crops :
        /\ c.trigger = Event("slider", 2500, 7304)
        /\ c.pc = "exec"
        /\ c.file = "a"
        /\ c.args[4] = <<"2", ".", "5">>
        /\ c.args[6] = <<"7", ".", "3">>
        /\ startTime # c.ss

\* C4 (as claimed): after a slider change, while the waveform has its
\* region, the region's start and end equal the new interval.
C4_SliderPushesRegion ==
    (lastEvent.type = "slider" /\ Regions # {}) =>
        \A r \in Regions :
            /\ r.start \in {lastEvent.a, startTime}
            /\ r.end \in {lastEvent.b, endTime}

\* C5: a region-updated event changes the interval and nothing else of the
\* component: the region keeps the bounds the drag gave it (nothing is pushed
\* back), and the asset, the crop state, the engine and the result are
\* untouched.
C5_RegionUpdateFrame ==
    [][lastEvent'.type = "region" =>
          /\ UNCHANGED <<audioFile, isProcessing, croppedAudioUrl, isFFmpegLoaded,
                         ffmpegRef, loadPc, instances, crops, nextCrop, engineFs>>
          /\ notified' = "none"
          /\ waveSurferRef'.id = waveSurferRef.id
          /\ waveSurferRef'.phase = waveSurferRef.phase
          /\ \A r \in waveSurferRef'.regions :
                \/ r \in waveSurferRef.regions
                \/ r.start = lastEvent'.a /\ r.end = lastEvent'.b]_vars

C5_Witness ==
    /\ lastEvent = Event("region", 1004, 4009)
    /\ startTime = 1000
    /\ \E r \in Regions : r.start = 1004 /\ r.end = 4009

\* C6: a crop that fails leaves the asset, the interval and an earlier crop
\* result as they were, shows the failure message, and puts isProcessing
\* back to false, so that the crop button takes clicks again.
C6_CropFailureFrame ==
    [][lastEvent'.type = "cropFailed" =>
          /\ UNCHANGED <<audioFile, startTime, endTime, croppedAudioUrl>>
          /\ notified' = "cropError"
          /\ isProcessing' = FALSE
          /\ CropTriggerEnabled']_vars

C6_Witness ==
    /\ lastEvent.type = "cropFailed"
    /\ croppedAudioUrl # NoUrl
    /\ notified = "cropError"
    /\ ~isProcessing

\* C7: at most one crop invocation is outstanding: one is outstanding
\* exactly while isProcessing is true, and then the button takes no click.
C7_OneCropOutstanding ==
    /\ Cardinality(crops) <= 1
    /\ isProcessing <=> crops # {}
    /\ isProcessing => ~CropTriggerEnabled

C7_Witness ==
    /\ isProcessing
    /\ \E c \in crops : c.id = 2 /\ c.pc = "exec"

\* C8 (as claimed): the engine calls of a crop are one writeFile, one exec
\* and one readFile, in that order.
C8_OneWriteExecRead ==
    \A c \in crops : IsPrefix(c.calls, <<"writeFile", "exec", "readFile">>)

\* The engine calls of a crop that runs to its end.
CompletedCalls == <<"writeFile", "exec", "readFile", "readFile">>

\* C8 (amended): a crop that succeeds has called writeFile, exec, readFile
\* and readFile again, in that order; a crop that fails has called a prefix
\* of that sequence.
C8_CallsOfACrop ==
    /\ [](\A c \in crops : IsPrefix(c.calls, CompletedCalls))
    /\ [][\A c \in crops :
             (c \notin crops' /\ lastEvent'.type = "cropDone") =>
                 c.calls = CompletedCalls]_vars

C8_Witness ==
    /\ lastEvent.type = "cropDone"
    /\ croppedAudioUrl # NoUrl
    /\ crops = {}

\* C9: a region-updated event reporting (a, b) sets the interval to a and b
\* each cut toward zero to two decimals: 1.004 and 4.009 give [1.0, 4.0].
C9_RegionTruncates ==
    lastEvent.type = "region" =>
        /\ TruncatedTo(lastEvent.a, startTime)
        /\ TruncatedTo(lastEvent.b, endTime)
        /\ (lastEvent.a = 1004 /\ lastEvent.b = 4009) =>
              (startTime = 1000 /\ endTime = 4000)

C9_Witness ==
    /\ lastEvent = Event("region", 1004, 4009)
    /\ startTime = 1000
    /\ endTime = 4000

C11_NoCropBeforeLoad ==
    /\ []((crops # {} \/ engineFs.output # NoOutput) =>
             (isFFmpegLoaded /\ ffmpegRef = "ffmpeg"))
    /\ [](\A c \in crops : c.file # NoFile)
    /\ [][(lastEvent'.type = "crop" /\ CropNotReady) =>
             /\ notified' = "notReady"
             /\ UNCHANGED <<isProcessing, audioFile, startTime, endTime,
                            croppedAudioUrl, crops, nextCrop, engineFs>>]_vars

C11_Witness ==
    /\ lastEvent.type = "crop"
    /\ notified = "notReady"
    /\ audioFile.file # NoFile
    /\ ~isFFmpegLoaded
    /\ loadPc = "loading"
    /\ crops = {}

\* C12 (as claimed): when the waveform is decoded, the initial region is
\* created at full width: it starts at 0 and ends at the duration.
C12_InitialRegionFullWidth ==
    lastEvent.type = "decode" =>
        /\ Regions # {}
        /\ \A r \in Regions :
              /\ r.start = 0
              /\ r.end \in {waveSurferRef.duration,
                            preserveDecimals(waveSurferRef.duration)}

\* Engine initialisation has failed: loadFFmpeg has settled without an engine.
InitFailed == loadPc = "done" /\ ffmpegRef = "null"

\* C13: once engine initialisation has failed it stays failed:
\* isFFmpegLoaded is false in every later state, the crop button stays
\* disabled, no crop is ever started and the engine's file system is never
\* written, so no writeFile, exec or readFile is ever performed.
C13_InitFailureIsFinal ==
    /\ [](InitFailed =>
             /\ ~isFFmpegLoaded
             /\ ~CropTriggerEnabled
             /\ crops = {}
             /\ nextCrop = 1
             /\ engineFs.output = NoOutput
             /\ croppedAudioUrl = NoUrl)
    /\ [][InitFailed => InitFailed']_vars

C13_Witness ==
    /\ InitFailed
    /\ AssetLoaded
    /\ audioFile.url = 2
    /\ lastEvent.type = "crop"
    /\ notified = "notReady"
    /\ ~isFFmpegLoaded

\* C14: a file larger than maxFileSize is rejected before any state is
\* created: the upload handler shows the too-large message and leaves
\* audioFile, the interval, the crop result and the waveform instance as
\* they were.  A file of exactly maxFileSize is accepted.
C14_TooLargeRejected ==
    [][lastEvent'.type = "upload" =>
          IF lastEvent'.a > maxFileSize
          THEN /\ notified' = "tooLarge"
               /\ UNCHANGED <<audioFile, startTime, endTime, croppedAudioUrl,
                              waveSurferRef, instances, isProcessing, crops>>
          ELSE /\ notified' = "none"
               /\ audioFile'.file # NoFile
               /\ Size(audioFile'.file) = lastEvent'.a
               /\ audioFile'.url # audioFile.url
               /\ waveSurferRef'.id = audioFile'.url
               /\ lastEvent'.a = maxFileSize => audioFile'.file = "b"]_vars

C14_Witness ==
    /\ lastEvent = Event("upload", maxFileSize + 1, 0)
    /\ notified = "tooLarge"
    /\ audioFile.file = "b"
    /\ Size(audioFile.file) = maxFileSize
    /\ AssetLoaded

\* C15 (as claimed): a crop whose exec completed without producing output
\* is treated as a failure: only a crop whose own exec wrote output.mp3 gets
\* past the check of the first read, and a crop result is the output of the
\* crop that set it.
C15_MissingOutputFails ==
    /\ \A c \in crops : c.pc = "readFile2" => engineFs.output.by = c.id
    /\ lastEvent.type = "cropDone" => croppedAudioUrl.data = lastEvent.a

\* C16: provided every promise a crop awaits eventually settles, every
\* started crop settles: whenever isProcessing is true it is eventually
\* false again, after a success and after a failure at any await.
C16_CropSettles == isProcessing ~> ~isProcessing

C16_Witness ==
    /\ lastEvent.type \in {"cropDone", "cropFailed"}
    /\ lastEvent.a = 2
    /\ ~isProcessing
    /\ crops = {}
    /\ nextCrop = 3

\* C17 (as claimed): after any slider change on a loaded asset the stored
\* interval satisfies 0 <= startTime <= endTime <= duration, the duration
\* being that of the decoded audio.
C17_SliderClamped ==
    (lastEvent.type = "slider" /\ AssetLoaded) =>
        /\ 0 <= startTime
        /\ startTime <= endTime
        /\ endTime <= waveSurferRef.duration

\* C18: selecting a new file destroys the previous waveform instance before
\* the new one is created: at any time at most one instance is alive, it is
\* the one of the current object URL, and it has at most one region.  A step
\* that leaves the URL as it was (a rejected selection among them) destroys
\* and creates nothing.
C18_OneLiveWaveform ==
    /\ [](/\ Cardinality(instances) <= 1
          /\ Cardinality(Regions) <= 1
          /\ waveSurferRef # NoWs =>
                (instances = {waveSurferRef.id} /\ waveSurferRef.id = audioFile.url)
          /\ waveSurferRef = NoWs => instances = {})
    /\ [][IF audioFile'.url = audioFile.url
          THEN /\ instances' = instances
               /\ waveSurferRef # NoWs => waveSurferRef'.id = waveSurferRef.id
          ELSE instances' = {audioFile'.url}]_vars

C18_Witness ==
    /\ audioFile.url = 2
    /\ instances = {2}
    /\ waveSurferRef.id = 2
    /\ Cardinality(Regions) = 1
    /\ lastEvent.type = "decode"

\* C19: a crop never changes the loaded asset: no step of a crop, from the
\* click to its success or failure, changes audioFile, and a success stores
\* its output as a new croppedAudioUrl, apart from the asset.
C19_CropKeepsAsset ==
    [][lastEvent'.type \in {"crop", "cropStep", "cropFailed", "cropDone"} =>
          /\ audioFile' = audioFile
          /\ lastEvent'.type = "cropDone" =>
                /\ croppedAudioUrl' # NoUrl
                /\ croppedAudioUrl' # croppedAudioUrl
                /\ croppedAudioUrl'.url = lastEvent'.a
          /\ lastEvent'.type # "cropDone" => croppedAudioUrl' = croppedAudioUrl]_vars

C19_Witness ==
    /\ lastEvent = Event("cropDone", 2, 0)
    /\ audioFile = [file |-> "a", url |-> 1, duration |-> 0]
    /\ croppedAudioUrl.url = 2

\* C20: the -ss and -to arguments of a crop's exec call are the startTime
\* and endTime of the moment the crop was triggered, and the bytes of its
\* writeFile call are those of the file selected at that moment: a slider
\* change, a region update or a new file selection while the crop is
\* suspended changes neither.
C20_CropUsesTriggerState ==
    /\ [](\A c \in crops :
             /\ c.pc # "arrayBuffer" => c.input = c.file
             /\ c.pc \in {"exec", "readFile1", "readFile2"} =>
                   c.args = ExecArgs(c.ss, c.to))
    /\ [][\A d \in crops' :
             IF \E c \in crops : c.id = d.id
             THEN \A c \in crops :
                     c.id = d.id => (d.ss = c.ss /\ d.to = c.to /\ d.file = c.file)
             ELSE d.ss = startTime /\ d.to = endTime /\ d.file = audioFile.file]_vars

C20_Witness ==
    \E c \in crops :
        /\ c.pc = "exec"
        /\ c.file = "a" /\ c.input = "a"
        /\ audioFile.file = "b"
        /\ c.ss = 0 /\ c.to = 10000
        /\ startTime = 2500 /\ endTime = 7300
        /\ c.args = ExecArgs(0, 10000)
        /\ c.args[6] = <<"1", "0">>

\* C21: the crop result is written only by a crop that reaches its success
\* path: a step that changes croppedAudioUrl is the end of a crop that made
\* all its engine calls and shows the success message, and every other step
\* (file selection, waveform events, slider changes, failed crops) leaves it
\* as it was.  A result therefore stays shown after a new file is selected.
C21_ResultOnlyFromSuccess ==
    /\ [][croppedAudioUrl' # croppedAudioUrl =>
             /\ lastEvent'.type = "cropDone"
             /\ notified' = "cropSuccess"
             /\ \E c \in crops :
                   /\ c.id = lastEvent'.a
                   /\ c.pc = "readFile2"
                   /\ c.calls = CompletedCalls
                   /\ c \notin crops'
                   /\ croppedAudioUrl'.url = c.id]_vars
    /\ [][lastEvent'.type # "cropDone" => croppedAudioUrl' = croppedAudioUrl]_vars
    /\ [][ResultPanelShown => ResultPanelShown']_vars

C21_Witness ==
    /\ lastEvent = Event("upload", maxFileSize, 0)
    /\ audioFile.file = "b"
    /\ audioFile.url = 2
    /\ ResultPanelShown
    /\ croppedAudioUrl.url = 1
    /\ crops = {}
    /\ nextCrop = 3

====
